---- MODULE Spec2Model ----
(***************************************************************************)
(* Cube marathon timer (src/src/main.rs): the App session state machine,   *)
(* driven by the run loop  draw ; handle_events  until the exit flag.      *)
(*                                                                         *)
(* Time.  The monotonic clock (std::time::Instant) is the variable now,    *)
(* counted in tenths of a second; an Instant field holds the clock reading *)
(* at which it was taken.  A Duration is a difference of two readings.     *)
(* f32 values (Solve.time, total_time, the sampled durations) are held     *)
(* exactly, as integer multiples of 2^-27 s: every f32 in [2^-4, 16) and   *)
(* 0.0 is such a multiple.                                                 *)
(***************************************************************************)
EXTENDS Integers, Sequences, FiniteSets, TLC

VARIABLES
    state,          \* App.state: "Begin" | "Running" | "Finished"
    target,         \* App.target: u8
    counter,        \* App.counter: u8
    total_begin,    \* App.total_begin: Instant (clock reading)
    total_time,     \* App.total_time: f32
    current_begin,  \* App.current_begin: Instant (clock reading)
    exit,           \* App.exit: bool
    solves,         \* App.solves: Vec<Solve>, records [number, time]
    now,            \* the monotonic clock
    pc,             \* position of App::run: "draw" | "read" | "returned" | "panicked"
    event,          \* the Event handle_events has just read (NoEvent once dropped)
    provisional,    \* first duration sample of the latest solve_done (f32), -1 if none
    beeps           \* number of beep() calls made by the latest handle_events

appvars == <<state, target, counter, total_begin, total_time, current_begin,
             exit, solves>>
vars == <<state, target, counter, total_begin, total_time, current_begin,
          exit, solves, now, pc, event, provisional, beeps>>

----------------------------------------------------------------------------
(* Bounds of the exploration. *)

\* the clock stops advancing at this reading (tenths of a second)
MaxTime == 16
\* the clock advances by at most this much between two statements of a handler
MaxJitter == 1
\* the user starts a session only when the target is at most this
MaxSessionTarget == 3

----------------------------------------------------------------------------
(* f32 arithmetic. *)

\* n / d rounded to the nearest integer, ties to even
RoundHalfEven(n, d) ==
    LET f == n \div d
        r == n % d
    IN  IF 2 * r < d THEN f
        ELSE IF 2 * r > d THEN f + 1
        ELSE IF f % 2 = 0 THEN f ELSE f + 1

\* the number of bits of x > 0
RECURSIVE BitLen(_)
BitLen(x) == IF x = 0 THEN 0 ELSE 1 + BitLen(x \div 2)

\* x (in units of 2^-27) rounded to a 24-bit significand
RoundF32(x) ==
    IF BitLen(x) <= 24 THEN x
    ELSE LET ulp == 2 ^ (BitLen(x) - 24)
         IN  RoundHalfEven(x, ulp) * ulp

\* the f32 quotient p / q for 0 <= p < q, in units of 2^-27
RECURSIVE DivF32Shift(_, _, _)
DivF32Shift(p, q, k) ==
    \* k is the number of doublings that bring p/q into [1, 2)
    IF p * (2 ^ k) >= q THEN RoundHalfEven(p * (2 ^ (23 + k)), q) * (2 ^ (4 - k))
    ELSE DivF32Shift(p, q, k + 1)

DivF32(p, q) == IF p = 0 THEN 0 ELSE DivF32Shift(p, q, 1)

\* Duration::as_secs_f32: (secs as f32) + (nanos as f32) / (1e9 as f32).
\* d counts tenths of a second, so secs = d div 10 and nanos = (d mod 10) * 1e8;
\* both are exact in f32, the quotient and the sum are each rounded once.
as_secs_f32(d) ==
    RoundF32((d \div 10) * (2 ^ 27) + DivF32(d % 10, 10))

\* the literal 0.5 of solve_done, in units of 2^-27
DEBOUNCE == 67108864

\* Instant::elapsed at clock reading t
elapsed(since, t) == t - since

----------------------------------------------------------------------------
(* Events delivered by crossterm's event::read(). *)

KeyCodes == {"q", "Right", "Left", "Space", "r", "x"}

Key(code, kind) == [type |-> "Key", code |-> code, kind |-> kind]

Events ==
    {Key(c, "Press") : c \in KeyCodes}
      \cup {Key("q", "Release")}
      \cup {[type |-> "Resize", code |-> "none", kind |-> "none"]}

NoEvent == [type |-> "None", code |-> "none", kind |-> "none"]

----------------------------------------------------------------------------
(* impl Default for App *)

Init ==
    /\ state = "Begin"
    /\ target = 42
    /\ counter = 0
    /\ total_begin = 0
    /\ total_time = 0
    /\ current_begin = 0
    /\ exit = FALSE
    /\ solves = <<>>
    /\ now = 0
    /\ pc = "draw"
    /\ event = NoEvent
    /\ provisional = -1
    /\ beeps = 0

----------------------------------------------------------------------------
(* The clock. *)

\* the advances the clock can make between two consecutive statements
Jitters(t) == {j \in 0..MaxJitter : j = 0 \/ t + j <= MaxTime}

\* time passes while event::read() blocks
Tick ==
    /\ pc = "read"
    /\ now < MaxTime
    /\ now' = now + 1
    /\ UNCHANGED <<state, target, counter, total_begin, total_time,
                   current_begin, exit, solves, pc, event, provisional, beeps>>

----------------------------------------------------------------------------
(* The handlers of impl App.  Each one states the whole effect of the call *)
(* on the App, the clock and the run loop.                                 *)

\* a match arm `_ => {}`: nothing is called
ignore ==
    /\ pc' = "draw"
    /\ beeps' = 0
    /\ provisional' = -1
    /\ UNCHANGED <<state, target, counter, total_begin, total_time,
                   current_begin, exit, solves, now>>

\* a variant of start_timing that keeps the total_begin of construction or of
\* the session before
start_timing_keeps_total_begin ==
    \E j \in Jitters(now) :
        /\ beeps' = 1
        /\ state' = "Running"
        /\ current_begin' = now + j
        /\ now' = now + j
        /\ pc' = "draw"
        /\ provisional' = -1
        /\ UNCHANGED <<target, counter, total_begin, total_time, exit, solves>>

\* a variant of start_timing without the audio cue
start_timing_silent ==
    \E j \in Jitters(now) :
        /\ beeps' = 0
        /\ state' = "Running"
        /\ total_begin' = now
        /\ current_begin' = now + j
        /\ now' = now + j
        /\ pc' = "draw"
        /\ provisional' = -1
        /\ UNCHANGED <<target, counter, total_time, exit, solves>>

start_timing ==
    \E j \in Jitters(now) :
        /\ beeps' = 1
        /\ state' = "Running"
        /\ total_begin' = now
        /\ current_begin' = now + j
        /\ now' = now + j
        /\ pc' = "draw"
        /\ provisional' = -1
        /\ UNCHANGED <<target, counter, total_time, exit, solves>>

App_exit ==
    /\ exit' = TRUE
    /\ pc' = "draw"
    /\ beeps' = 0
    /\ provisional' = -1
    /\ UNCHANGED <<state, target, counter, total_begin, total_time,
                   current_begin, solves, now>>

increment_target ==
    /\ target' = IF target < 255 THEN target + 1 ELSE target
    /\ pc' = "draw"
    /\ beeps' = 0
    /\ provisional' = -1
    /\ UNCHANGED <<state, counter, total_begin, total_time, current_begin,
                   exit, solves, now>>

\* a variant of decrement_target with the floor off by one
decrement_target_below_floor ==
    /\ target' = IF target > 1 THEN target - 1 ELSE target
    /\ pc' = "draw"
    /\ beeps' = 0
    /\ provisional' = -1
    /\ UNCHANGED <<state, counter, total_begin, total_time, current_begin,
                   exit, solves, now>>

decrement_target ==
    /\ target' = IF target > 2 THEN target - 1 ELSE target
    /\ pc' = "draw"
    /\ beeps' = 0
    /\ provisional' = -1
    /\ UNCHANGED <<state, counter, total_begin, total_time, current_begin,
                   exit, solves, now>>

\* a variant of too_fast that also discards a duration of exactly 0.5
too_fast_inclusive(duration) == duration <= DEBOUNCE

\* a variant of too_fast that discards nothing
too_fast_never(duration) == FALSE

\* a variant of too_fast that discards every event
too_fast_always(duration) == TRUE

\* a variant of too_fast with the threshold at 0.25
too_fast_quarter(duration) == 2 * duration < DEBOUNCE

\* `if duration < 0.5 { return; }`
too_fast(duration) == duration < DEBOUNCE

\* a variant of target_reached that fires one solve early
target_reached_early(c) == c + 1 = target

\* a variant of target_reached that fires one solve late
target_reached_late(c) == c = target + 1

\* `if self.counter == self.target`
target_reached(c) == c = target

\* a variant of solve_done in which a discarded event restarts the attempt
solve_done_restarts_on_discard ==
    LET duration == as_secs_f32(elapsed(current_begin, now)) IN
    IF too_fast(duration)
    THEN /\ beeps' = 1
         /\ provisional' = duration
         /\ pc' = "draw"
         /\ current_begin' = now
         /\ UNCHANGED <<state, target, counter, total_begin, total_time,
                        exit, solves, now>>
    ELSE \/ /\ counter = 255
            /\ beeps' = 1
            /\ provisional' = duration
            /\ pc' = "panicked"
            /\ UNCHANGED <<state, target, counter, total_begin, total_time,
                           current_begin, exit, solves, now>>
         \/ \E j1 \in Jitters(now) : \E j2 \in Jitters(now + j1) :
            \E j3 \in Jitters(now + j1 + j2) :
              LET t1 == now + j1          \* second current_begin.elapsed()
                  t2 == t1 + j2           \* Instant::now()
                  t3 == t2 + j3           \* total_begin.elapsed()
                  incremented == (counter + 1) % 256
              IN  /\ beeps' = 1
                  /\ provisional' = duration
                  /\ counter' = incremented
                  /\ current_begin' = t2
                  /\ solves' = Append(solves,
                         [number |-> incremented,
                          time |-> as_secs_f32(elapsed(current_begin, t1))])
                  /\ IF target_reached(incremented)
                     THEN /\ total_time' = as_secs_f32(elapsed(total_begin, t3))
                          /\ state' = "Finished"
                          /\ now' = t3
                     ELSE /\ now' = t2
                          /\ UNCHANGED <<total_time, state>>
                  /\ pc' = "draw"
                  /\ UNCHANGED <<target, total_begin, exit>>

\* `self.counter += 1` on a u8: at 255 the debug build panics on the
\* overflow and the release build wraps to 0
solve_done ==
    LET duration == as_secs_f32(elapsed(current_begin, now)) IN
    IF too_fast(duration)
    THEN /\ beeps' = 1
         /\ provisional' = duration
         /\ pc' = "draw"
         /\ UNCHANGED <<state, target, counter, total_begin, total_time,
                        current_begin, exit, solves, now>>
    ELSE \/ /\ counter = 255
            /\ beeps' = 1
            /\ provisional' = duration
            /\ pc' = "panicked"
            /\ UNCHANGED <<state, target, counter, total_begin, total_time,
                           current_begin, exit, solves, now>>
         \/ \E j1 \in Jitters(now) : \E j2 \in Jitters(now + j1) :
            \E j3 \in Jitters(now + j1 + j2) :
              LET t1 == now + j1          \* second current_begin.elapsed()
                  t2 == t1 + j2           \* Instant::now()
                  t3 == t2 + j3           \* total_begin.elapsed()
                  incremented == (counter + 1) % 256
              IN  /\ beeps' = 1
                  /\ provisional' = duration
                  /\ counter' = incremented
                  /\ current_begin' = t2
                  /\ solves' = Append(solves,
                         [number |-> incremented,
                          time |-> as_secs_f32(elapsed(current_begin, t1))])
                  /\ IF target_reached(incremented)
                     THEN /\ total_time' = as_secs_f32(elapsed(total_begin, t3))
                          /\ state' = "Finished"
                          /\ now' = t3
                     ELSE /\ now' = t2
                          /\ UNCHANGED <<total_time, state>>
                  /\ pc' = "draw"
                  /\ UNCHANGED <<target, total_begin, exit>>

\* a variant of reset that forgets to clear the solves
reset_keeps_solves ==
    /\ state' = "Begin"
    /\ counter' = 0
    /\ pc' = "draw"
    /\ beeps' = 0
    /\ provisional' = -1
    /\ UNCHANGED <<target, total_begin, total_time, current_begin, exit, now,
                   solves>>

\* a variant of reset that forgets to clear the counter
reset_keeps_counter ==
    /\ state' = "Begin"
    /\ solves' = <<>>
    /\ pc' = "draw"
    /\ beeps' = 0
    /\ provisional' = -1
    /\ UNCHANGED <<target, total_begin, total_time, current_begin, exit, now,
                   counter>>

\* a variant of reset that goes back to the default target
reset_default_target ==
    /\ state' = "Begin"
    /\ counter' = 0
    /\ solves' = <<>>
    /\ target' = 42
    /\ pc' = "draw"
    /\ beeps' = 0
    /\ provisional' = -1
    /\ UNCHANGED <<total_begin, total_time, current_begin, exit, now>>

reset ==
    /\ state' = "Begin"
    /\ counter' = 0
    /\ solves' = <<>>
    /\ pc' = "draw"
    /\ beeps' = 0
    /\ provisional' = -1
    /\ UNCHANGED <<target, total_begin, total_time, current_begin, exit, now>>

\* a variant of handle_key_event that adjusts the target in every state
handle_key_event_target_anywhere(code) ==
    CASE code = "Right" -> increment_target
      [] code = "Left" -> decrement_target
      [] state = "Begin" ->
            CASE code = "q" -> App_exit
              [] code = "Space" -> start_timing
              [] OTHER -> ignore
      [] state = "Running" ->
            CASE code = "q" -> App_exit
              [] OTHER -> solve_done
      [] state = "Finished" ->
            CASE code = "q" -> App_exit
              [] code = "r" -> reset
              [] OTHER -> ignore

\* a variant of handle_key_event where Space restarts a finished session
handle_key_event_space_restarts(code) ==
    CASE state = "Begin" ->
            CASE code = "q" -> App_exit
              [] code = "Right" -> increment_target
              [] code = "Left" -> decrement_target
              [] code = "Space" -> start_timing
              [] OTHER -> ignore
      [] state = "Running" ->
            CASE code = "q" -> App_exit
              [] OTHER -> solve_done
      [] state = "Finished" ->
            CASE code = "q" -> App_exit
              [] code = "r" -> reset
              [] code = "Space" -> start_timing
              [] OTHER -> ignore

\* a variant of handle_key_event where r abandons a running session
handle_key_event_reset_anywhere(code) ==
    CASE state = "Begin" ->
            CASE code = "q" -> App_exit
              [] code = "Right" -> increment_target
              [] code = "Left" -> decrement_target
              [] code = "Space" -> start_timing
              [] OTHER -> ignore
      [] state = "Running" ->
            CASE code = "q" -> App_exit
              [] code = "r" -> reset
              [] OTHER -> solve_done
      [] state = "Finished" ->
            CASE code = "q" -> App_exit
              [] code = "r" -> reset
              [] OTHER -> ignore

handle_key_event(code) ==
    CASE state = "Begin" ->
            CASE code = "q" -> App_exit
              [] code = "Right" -> increment_target
              [] code = "Left" -> decrement_target
              [] code = "Space" -> start_timing
              [] OTHER -> ignore
      [] state = "Running" ->
            CASE code = "q" -> App_exit
              [] OTHER -> solve_done
      [] state = "Finished" ->
            CASE code = "q" -> App_exit
              [] code = "r" -> reset
              [] OTHER -> ignore

\* a variant of handle_events without the test of the key event's kind
handle_events_any_kind(e) ==
    /\ pc = "read"
    /\ event' = e
    /\ IF e.type = "Key"
       THEN handle_key_event(e.code)
       ELSE ignore

\* one call of handle_events, on the event e that event::read() returns
handle_events(e) ==
    /\ pc = "read"
    /\ event' = e
    /\ IF e.type = "Key" /\ e.kind = "Press"
       THEN handle_key_event(e.code)
       ELSE ignore

----------------------------------------------------------------------------
(* Statistics used by the panel, and the run loop. *)

calculate_average_is_none == counter = 0

\* render() and what it calls, as far as they can panic
render_panics ==
    \/ state = "Begin"
    \/ state = "Finished" /\ target # 42 /\ calculate_average_is_none

\* `(app.counter + 1).to_string()` of the Running panel, on a u8 holding 255:
\* the debug build panics, the release build wraps
render_overflows == state = "Running" /\ counter = 255

\* a variant of render_frame that draws the statistics panel in every state
render_frame_panel_always ==
    /\ pc' \in IF render_panics THEN {"panicked"}
               ELSE IF render_overflows THEN {"panicked", "read"}
               ELSE {"read"}
    /\ event' = NoEvent
    /\ provisional' = -1
    /\ beeps' = 0
    /\ UNCHANGED <<state, target, counter, total_begin, total_time,
                   current_begin, exit, solves, now>>

\* render_frame: the statistics panel is drawn in Running and Finished
render_frame ==
    /\ pc' \in IF state # "Begin" /\ render_panics THEN {"panicked"}
               ELSE IF state # "Begin" /\ render_overflows THEN {"panicked", "read"}
               ELSE {"read"}
    /\ event' = NoEvent
    /\ provisional' = -1
    /\ beeps' = 0
    /\ UNCHANGED <<state, target, counter, total_begin, total_time,
                   current_begin, exit, solves, now>>

\* a variant of Draw for a loop that never tests the exit flag
Draw_ignores_exit ==
    /\ pc = "draw"
    /\ render_frame

\* `while !self.exit { terminal.draw(..)?; ...`
Draw ==
    /\ pc = "draw"
    /\ ~exit
    /\ render_frame

\* `while !self.exit` fails: run returns Ok(())
Return ==
    /\ pc = "draw"
    /\ exit
    /\ pc' = "returned"
    /\ UNCHANGED <<state, target, counter, total_begin, total_time,
                   current_begin, exit, solves, now, event, provisional, beeps>>

\* event::read() returns the next event of the terminal
Read ==
    \E e \in Events :
        /\ (state = "Begin" /\ e = Key("Space", "Press")) => target <= MaxSessionTarget
        /\ handle_events(e)

Next == Draw \/ Read \/ Tick \/ Return

Spec == Init /\ [][Next]_vars

----------------------------------------------------------------------------
(* The run loop with a user who never quits and keeps making attempts.     *)

\* the clock reading by which a running session can be finished at the
\* latest: each solve still to come takes 0.5 s of the clock, and each but the
\* last can lose the jitter of two statements before the next attempt begins
FinishBy(t) ==
    LET first == IF t > current_begin + 5 THEN t ELSE current_begin + 5
    IN  first + (target - counter - 1) * (5 + 2 * MaxJitter)

\* time passes; while Running only as far as leaves the session time to
\* finish before the clock stops
LiveTick ==
    /\ Tick
    /\ state = "Running" => FinishBy(now + 1) <= MaxTime

\* event::read() returns an event other than the press of q
LiveRead ==
    \E e \in Events \ {Key("q", "Press")} :
        /\ (state = "Begin" /\ e = Key("Space", "Press")) => target <= MaxSessionTarget
        /\ handle_events(e)

\* a record_attempt at least 0.5 s after current_begin
Accept ==
    /\ state = "Running"
    /\ as_secs_f32(elapsed(current_begin, now)) >= DEBOUNCE
    /\ \E c \in KeyCodes \ {"q"} : handle_events(Key(c, "Press"))

LiveNext == Draw \/ LiveRead \/ LiveTick

\* the loop keeps drawing, time keeps passing, and attempts that can be
\* accepted keep being made
LiveSpec ==
    /\ Init /\ [][LiveNext]_vars
    /\ WF_vars(Draw) /\ SF_vars(LiveTick) /\ SF_vars(Accept)

TypeOK ==
    /\ state \in {"Begin", "Running", "Finished"}
    /\ target \in 0..255
    /\ counter \in 0..255
    /\ total_begin \in 0..(MaxTime + 3 * MaxJitter)
    /\ current_begin \in 0..(MaxTime + 3 * MaxJitter)
    /\ now \in 0..(MaxTime + 3 * MaxJitter)
    /\ exit \in BOOLEAN
    /\ pc \in {"draw", "read", "returned", "panicked"}
    /\ event \in Events \cup {NoEvent}
    /\ beeps \in 0..1

----------------------------------------------------------------------------
(* Steps of the run loop, as seen from a pair of states. *)

Pressed(code) == Key(code, "Press")

\* the step is handle_events reading the event e
Handled(e) == pc = "read" /\ event' = e

\* the step is handle_events reading some event
HandledAny == pc = "read" /\ event' \in Events

\* the step is a record_attempt: any key press but q, read while Running
RecordAttempt ==
    /\ state = "Running"
    /\ HandledAny
    /\ event'.type = "Key" /\ event'.kind = "Press" /\ event'.code # "q"

\* the duration the first sample of solve_done sees in the current state
Elapsed == as_secs_f32(elapsed(current_begin, now))

\* the session fields named by the data model
session == <<state, target, counter, solves, current_begin, total_begin,
             total_time>>

----------------------------------------------------------------------------
(* Properties. *)

\* C1: in every reachable state the counter equals the number of Solve
\* records in solves.
C1_CounterIsLen == counter = Len(solves)

\* a second session, after a completed and reset one, has recorded a solve
C1_Witness ==
    state = "Running" /\ counter = 1 /\ Len(solves) = 1 /\ total_time > 0

C2_TargetStep ==
    /\ (state = "Begin" /\ Handled(Pressed("Right")))
          => target' = IF target = 255 THEN 255 ELSE target + 1
    /\ (state = "Begin" /\ Handled(Pressed("Left")))
          => target' = IF target = 2 THEN 2 ELSE target - 1

\* C2: the target stays within [2, 255]; in Begin, Right at 255 and Left at 2
\* leave it alone and otherwise Right adds exactly 1 and Left subtracts
\* exactly 1.
C2_TargetRange == [](target \in 2..255) /\ [][C2_TargetStep]_vars

\* Left has just been handled in Begin with the target at the floor
C2_Witness ==
    state = "Begin" /\ pc = "draw" /\ event = Pressed("Left") /\ target = 2

C3_AcceptedStep ==
    (RecordAttempt /\ Elapsed >= DEBOUNCE)
       => /\ counter' = counter + 1
          /\ Len(solves') = Len(solves) + 1
          /\ SubSeq(solves', 1, Len(solves)) = solves
          /\ solves'[Len(solves')].number = counter'

\* C3: while Running, a record_attempt at least 0.5 s after current_begin
\* adds exactly 1 to the counter and appends exactly one Solve, at the end of
\* solves, whose number is the new counter.
C3_AcceptedAppends == [][C3_AcceptedStep]_vars

\* an attempt has just been accepted as the second solve of a session that
\* goes on
C3_Witness ==
    /\ state = "Running" /\ pc = "draw" /\ event = Pressed("x")
    /\ provisional >= DEBOUNCE /\ counter = 2 /\ current_begin > total_begin

C4_DebouncedStep ==
    (RecordAttempt /\ Elapsed < DEBOUNCE) => UNCHANGED session

\* C4: while Running, a record_attempt less than 0.5 s after current_begin
\* changes no field of the session.
C4_DebouncedNoChange == [][C4_DebouncedStep]_vars

\* an attempt has just been discarded, 0.4 s after the first solve
C4_Witness ==
    /\ state = "Running" /\ pc = "draw" /\ event = Pressed("Space")
    /\ provisional = as_secs_f32(4) /\ counter = 1

C5_CompleteStep ==
    /\ (RecordAttempt /\ Elapsed >= DEBOUNCE)
          => state' = IF counter' = target' THEN "Finished" ELSE "Running"
    /\ state = "Finished" => total_time' = total_time

\* C5: an accepted record_attempt moves the state to Finished exactly when the
\* new counter equals the target, otherwise the state stays Running; and no
\* step taken in Finished, event or clock advance, changes total_time.
C5_CompleteFreezes == [][C5_CompleteStep]_vars

\* the session is finished and the clock has moved on since total_time was
\* taken
C5_Witness ==
    state = "Finished" /\ as_secs_f32(elapsed(total_begin, now)) > total_time

C6_BeginStep ==
    (state = "Begin" /\ Handled(Pressed("Space")))
       => state' = "Running" /\ counter' = 0 /\ solves' = <<>>

\* C6: right after Space is handled in Begin the state is Running, the
\* counter is 0 and solves is empty, whatever sessions came before.
C6_BeginStartsEmpty == [][C6_BeginStep]_vars

\* a session has just begun after an earlier one was completed and reset
C6_Witness ==
    /\ state = "Running" /\ pc = "draw" /\ event = Pressed("Space")
    /\ total_time > 0

C7_ResetStep ==
    (state = "Finished" /\ Handled(Pressed("r")))
       => /\ state' = "Begin" /\ counter' = 0 /\ solves' = <<>>
          /\ target' = target

\* C7: r handled in Finished gives state Begin with counter 0 and solves
\* empty, and leaves the target as it was.
C7_ResetClears == [][C7_ResetStep]_vars

\* a finished session with a target other than the default has just been reset
C7_Witness ==
    /\ state = "Begin" /\ pc = "draw" /\ event = Pressed("r")
    /\ total_time > 0 /\ target = 3

C8_TargetStep == state \in {"Running", "Finished"} => target' = target

\* C8: no step taken in Running or Finished changes the target.
C8_TargetFrozen == [][C8_TargetStep]_vars

\* Right has just been handled in a finished session
C8_Witness ==
    state = "Finished" /\ pc = "draw" /\ event = Pressed("Right")

C9_QuitStep ==
    /\ Handled(Pressed("q")) => exit'
    /\ exit => /\ exit'
               /\ ~HandledAny
               /\ pc' # "read"

\* C9: q handled in any state sets the exit flag, the flag is never cleared,
\* and once it is set the run loop reads no further event.
C9_QuitStops == [][C9_QuitStep]_vars

\* the loop has returned after q in a finished session
C9_Witness == exit /\ pc = "returned" /\ state = "Finished"

C10_IgnoredStep ==
    /\ (/\ state = "Begin" /\ HandledAny
        /\ event' \notin {Pressed(c) : c \in {"Right", "Left", "Space", "q"}})
          => UNCHANGED appvars
    /\ (/\ state = "Finished" /\ HandledAny
        /\ event' \notin {Pressed(c) : c \in {"r", "q"}})
          => UNCHANGED appvars

\* C10: an event that is not recognized in the current state changes nothing
\* of the App: in Begin every event but the presses of Right, Left, Space and
\* q, in Finished every event but the presses of r and q.
C10_IgnoredNoChange == [][C10_IgnoredStep]_vars

\* Space has just been handled in a finished session
C10_Witness ==
    state = "Finished" /\ pc = "draw" /\ event = Pressed("Space")

C11_AnyEventStep ==
    (state = "Running" /\ HandledAny /\ event'.code # "q" /\ Elapsed >= DEBOUNCE)
       => counter' = counter + 1 /\ Len(solves') = Len(solves) + 1

\* C11 as stated: while Running, every event read other than quit, whatever
\* its kind, is a record_attempt, and so records a solve once 0.5 s have
\* elapsed since current_begin.
C11_AnyEventRecords == [][C11_AnyEventStep]_vars

C11_KeyPressStep ==
    /\ (state = "Running" /\ HandledAny /\ event'.type = "Key"
          /\ event'.kind = "Press" /\ event'.code # "q")
          => /\ beeps' = 1
             /\ provisional' = Elapsed
             /\ Elapsed >= DEBOUNCE => counter' = counter + 1
    /\ (state = "Running" /\ HandledAny
          /\ ~(event'.type = "Key" /\ event'.kind = "Press"))
          => /\ UNCHANGED appvars
             /\ beeps' = 0 /\ provisional' = -1

\* C11, amended: while Running, every key press other than q, whatever the
\* key, runs solve_done (and so records a solve once 0.5 s have elapsed);
\* key events of another kind and events that are not key events are ignored.
C11_KeyPressRecords == [][C11_KeyPressStep]_vars

\* the press of r, a key with a meaning in another state, has just recorded
\* a solve
C11_Witness ==
    /\ state = "Running" /\ pc = "draw" /\ event = Pressed("r")
    /\ provisional >= DEBOUNCE /\ counter = 1

C12_DiscardStep ==
    /\ (RecordAttempt /\ Elapsed < DEBOUNCE)
          => current_begin' = current_begin
    /\ (RecordAttempt /\ Elapsed >= DEBOUNCE)
          => \E t \in now..now' :
                solves'[Len(solves')].time = as_secs_f32(elapsed(current_begin, t))

\* C12: a record_attempt discarded by the debounce test leaves current_begin
\* where the previous accepted attempt (or start_timing) put it, and an
\* accepted one records the time elapsed since that current_begin; so a
\* discard 0.2 s into the attempt followed by an accepted event 0.6 s later
\* records the 0.8 s since the attempt began.
C12_DiscardKeepsStart == [][C12_DiscardStep]_vars

\* the attempt after the first solve has just seen an event discarded 0.2 s
\* after it began, and still counts from its beginning
C12_Witness ==
    /\ state = "Running" /\ pc = "draw" /\ event = Pressed("x")
    /\ provisional = as_secs_f32(2) /\ elapsed(current_begin, now) = 2
    /\ counter = 1

C13_CueStep ==
    HandledAny
       => beeps' = IF \/ state = "Begin" /\ event' = Pressed("Space")
                      \/ RecordAttempt
                   THEN 1 ELSE 0

\* C13: handle_events calls beep() exactly once for Space pressed in Begin
\* and exactly once for a record_attempt in Running, accepted or discarded,
\* and not at all for any other event.
C13_CueOncePerAttempt == [][C13_CueStep]_vars

\* a discarded attempt has just sounded the cue
C13_Witness ==
    /\ state = "Running" /\ pc = "draw" /\ beeps = 1
    /\ provisional >= 0 /\ provisional < DEBOUNCE

C14_PhaseStep ==
    state' # state
       => \/ /\ state = "Begin" /\ state' = "Running"
             /\ Handled(Pressed("Space"))
          \/ /\ state = "Running" /\ state' = "Finished"
             /\ RecordAttempt /\ Elapsed >= DEBOUNCE /\ counter' = target
          \/ /\ state = "Finished" /\ state' = "Begin"
             /\ Handled(Pressed("r"))

\* C14: a step changes the state only from Begin to Running, by Space, from
\* Running to Finished, by an accepted record_attempt that brings the counter
\* to the target, or from Finished to Begin, by r.
C14_PhaseCycle == [][C14_PhaseStep]_vars

\* a session has been run to Finished and reset, and the next one has just
\* been started: the whole cycle has been walked
C14_Witness ==
    /\ state = "Running" /\ pc = "draw" /\ event = Pressed("Space")
    /\ total_time > 0 /\ counter = 0 /\ current_begin >= total_begin

\* C15: in every reachable state the i-th Solve of solves has number i.
C15_NumbersAreRanks ==
    \A i \in 1..Len(solves) : solves[i].number = i

\* a session of three solves is complete
C15_Witness == state = "Finished" /\ Len(solves) = 3

C16_CounterByState ==
    /\ state = "Begin" => counter = 0 /\ solves = <<>>
    /\ state = "Running" => counter < target
    /\ state = "Finished" => counter = target
    /\ 0 <= counter /\ counter <= target /\ target <= 255

C16_IncrementStep ==
    (RecordAttempt /\ Elapsed >= DEBOUNCE) => counter < 255 /\ pc' # "panicked"

\* C16: the counter is 0 and solves is empty in Begin, the counter is below
\* the target in Running and equal to it in Finished, so that
\* 0 <= counter <= target <= 255 always, and `self.counter += 1` is never
\* executed with the counter at 255.
C16_CounterTiedToState == []C16_CounterByState /\ [][C16_IncrementStep]_vars

\* a running session is one solve short of its target of three
C16_Witness ==
    state = "Running" /\ pc = "read" /\ target = 3 /\ counter = 2

\* C17: run never panics in the drawing: whenever the statistics panel is
\* drawn (Running, Finished) render does not reach its panic!() arm, and
\* whenever the projection to 42 cubes is computed (Finished, target other
\* than 42) calculate_average has a value to unwrap.
C17_RenderNeverPanics ==
    /\ pc # "panicked"
    /\ state # "Begin" => ~render_panics
    /\ (state = "Finished" /\ target # 42) => counter > 0 /\ Len(solves) > 0

\* a finished session with a target other than 42 has been drawn, projection
\* included, and the loop is waiting for the next event
C17_Witness ==
    state = "Finished" /\ pc = "read" /\ target # 42 /\ event = NoEvent

\* C18: every Solve stored has a time of at least 0.5.
C18_SolvesAtLeastDebounce ==
    \A i \in 1..Len(solves) : solves[i].time >= DEBOUNCE

\* the latest solve was accepted on a first sample of exactly 0.5 and
\* recorded with a later, larger second sample
C18_Witness ==
    /\ state = "Running" /\ pc = "draw" /\ Len(solves) > 0
    /\ provisional = DEBOUNCE
    /\ solves[Len(solves)].time > provisional

\* the sum of the times stored in a sequence of Solve records
RECURSIVE SumOfTimes(_)
SumOfTimes(s) ==
    IF s = <<>> THEN 0
    ELSE SumOfTimes(SubSeq(s, 1, Len(s) - 1)) + s[Len(s)].time

\* the Duration that as_secs_f32 turned into the f32 value x
Unrounded(x) == CHOOSE d \in 0..(MaxTime + 3 * MaxJitter) : as_secs_f32(d) = x

\* the sum of the Durations behind the times stored in a sequence of Solves
RECURSIVE SumOfDurations(_)
SumOfDurations(s) ==
    IF s = <<>> THEN 0
    ELSE SumOfDurations(SubSeq(s, 1, Len(s) - 1)) + Unrounded(s[Len(s)].time)

\* C19 as stated: in Finished, total_time is the clock reading at completion
\* less the reading at the latest start_timing, and the sum of the times of
\* all the Solves does not exceed it.
C19_SumWithinTotal ==
    state = "Finished"
       => /\ \E t \in current_begin..now :
                total_time = as_secs_f32(elapsed(total_begin, t))
          /\ SumOfTimes(solves) <= total_time

C19_SessionClock ==
    state = "Finished"
       => \E t \in current_begin..now :
             /\ total_time = as_secs_f32(elapsed(total_begin, t))
             /\ SumOfDurations(solves) <= elapsed(total_begin, t)

C19_SessionStep ==
    /\ (state = "Begin" /\ Handled(Pressed("Space"))) => total_begin' = now
    /\ state = "Running" => total_begin' = total_begin
    /\ (state = "Running" /\ state' = "Finished")
          => total_time' = as_secs_f32(elapsed(total_begin, now'))

\* C19, amended: total_begin is the clock reading at the latest start_timing
\* and is kept while Running; in Finished, total_time is the f32 value of the
\* reading at completion less total_begin, and the Durations of the Solves,
\* as read off the clock before their conversion to f32, sum to no more than
\* that difference.
C19_TotalSpansSession == []C19_SessionClock /\ [][C19_SessionStep]_vars

\* a session that began after the program had started is finished, and the
\* f32 times of its Solves add up to more than its f32 total_time
C19_Witness ==
    /\ state = "Finished" /\ total_begin > 0
    /\ SumOfTimes(solves) > total_time

C20_CompletionStep ==
    (state = "Running" /\ state' = "Finished")
       => /\ RecordAttempt /\ Elapsed >= DEBOUNCE
          /\ Len(solves') = target /\ counter' = target

\* C20: with no quit and with attempts that can be accepted made again and
\* again, a running session with time left on the clock eventually is
\* Finished; it becomes Finished by the accepted attempt that is the
\* target-th since start_timing, and is still Running while fewer have been
\* accepted.
C20_SessionCompletes ==
    /\ (state = "Running" /\ FinishBy(now) <= MaxTime) ~> state = "Finished"
    /\ [][C20_CompletionStep]_vars
    /\ [](state = "Running" => Len(solves) < target)

\* a session of two solves has just been finished by its second accepted
\* attempt
C20_Witness ==
    /\ state = "Finished" /\ pc = "draw" /\ Len(solves) = 2 /\ target = 2
    /\ provisional >= DEBOUNCE

====
